---- MODULE Spec2Model ----
(***************************************************************************)
(* Airflow_day1.py: the Hyderabad weather report generator.                *)
(*                                                                         *)
(* A console string is a sequence of one-character strings.  A             *)
(* temperature is an integer number of degrees Celsius (whole degrees are  *)
(* exact in binary floating point, so subtraction and comparison behave    *)
(* as on the floats the program receives).  A date of the series is the    *)
(* ordinal of the day in the API's `time` array.                           *)
(***************************************************************************)
EXTENDS Integers, Sequences, FiniteSets, TLC

VARIABLES pc, date_text, valid, entered, start_date, end_date,
          response, dates, max_temps, min_temps, threshold,
          exc, ret, out, invoked

vars == <<pc, date_text, valid, entered, start_date, end_date,
          response, dates, max_temps, min_temps, threshold,
          exc, ret, out, invoked>>

(***************************************************************************)
(* Bounds of the model.                                                    *)
(***************************************************************************)
\* iterations of the prompt loop of get_user_date_input that are explored
MaxAttempts == 2
\* longest array in an API body explored by the run of main
MaxDays == 2
\* longest array handed directly to the report functions
MaxLen == 3

(***************************************************************************)
(* Characters and strings.                                                 *)
(***************************************************************************)
Digits == {"0", "1", "2", "3", "4", "5", "6", "7", "8", "9"}

\* code point of a character (Python compares str by code point)
Ord(c) ==
    CASE c = " " -> 32 [] c = "-" -> 45 [] c = "/" -> 47
      [] c = "0" -> 48 [] c = "1" -> 49 [] c = "2" -> 50 [] c = "3" -> 51
      [] c = "4" -> 52 [] c = "5" -> 53 [] c = "6" -> 54 [] c = "7" -> 55
      [] c = "8" -> 56 [] c = "9" -> 57 [] c = "x" -> 120

\* s[p] exists and is one of the characters of set cs
CharIn(s, p, cs) == p >= 1 /\ p <= Len(s) /\ s[p] \in cs

\* int() of the digits s[a..b], blanks skipped as int() strips them
RECURSIVE IntOf(_, _, _)
IntOf(s, a, b) ==
    IF b < a THEN 0
    ELSE IF s[b] = " " THEN IntOf(s, a, b - 1)
    ELSE 10 * IntOf(s, a, b - 1) + (Ord(s[b]) - 48)

\* Python's a > b on str: lexicographic by code point
StrGreater(a, b) ==
    \E i \in 1..Len(a) :
        /\ \A j \in 1..(i - 1) : j <= Len(b) /\ a[j] = b[j]
        /\ (i > Len(b) \/ (i <= Len(b) /\ Ord(a[i]) > Ord(b[i])))

(***************************************************************************)
(* datetime.strptime(date_text, "%Y-%m-%d"): the format compiles to the    *)
(* regular expression                                                      *)
(*   (?P<Y>\d\d\d\d)-(?P<m>1[0-2]|0[1-9]|[1-9])                            *)
(*                  -(?P<d>3[0-1]|[1-2]\d|0[1-9]|[1-9]| [1-9])             *)
(* matched at the start of the string, alternatives tried in order; text   *)
(* left after the match, or a date the calendar does not have, is a        *)
(* ValueError.                                                             *)
(***************************************************************************)
NonZero == Digits \ {"0"}

\* lengths of the alternatives of (?P<m>...) that match at p, in order
MonthAlts(s, p) ==
    (IF CharIn(s, p, {"1"}) /\ CharIn(s, p + 1, {"0", "1", "2"}) THEN <<2>> ELSE <<>>)
    \o (IF CharIn(s, p, {"0"}) /\ CharIn(s, p + 1, NonZero) THEN <<2>> ELSE <<>>)
    \o (IF CharIn(s, p, NonZero) THEN <<1>> ELSE <<>>)

\* lengths of the alternatives of (?P<d>...) that match at p, in order
DayAlts(s, p) ==
    (IF CharIn(s, p, {"3"}) /\ CharIn(s, p + 1, {"0", "1"}) THEN <<2>> ELSE <<>>)
    \o (IF CharIn(s, p, {"1", "2"}) /\ CharIn(s, p + 1, Digits) THEN <<2>> ELSE <<>>)
    \o (IF CharIn(s, p, {"0"}) /\ CharIn(s, p + 1, NonZero) THEN <<2>> ELSE <<>>)
    \o (IF CharIn(s, p, NonZero) THEN <<1>> ELSE <<>>)
    \o (IF CharIn(s, p, {" "}) /\ CharIn(s, p + 1, NonZero) THEN <<2>> ELSE <<>>)

\* the month lengths after which "-" and a day follow, in order
MonthFits(s) ==
    SelectSeq(MonthAlts(s, 6),
              LAMBDA l : CharIn(s, 6 + l, {"-"}) /\ DayAlts(s, 7 + l) # <<>>)

\* format_regex.match(data_string): the groups of the first match, or none
RegexMatch(s) ==
    IF /\ \A p \in 1..4 : CharIn(s, p, Digits)
       /\ CharIn(s, 5, {"-"})
       /\ MonthFits(s) # <<>>
    THEN LET ml == Head(MonthFits(s))
             dl == Head(DayAlts(s, 7 + ml))
         IN  [found |-> TRUE,
              Y |-> IntOf(s, 1, 4),
              m |-> IntOf(s, 6, 5 + ml),
              d |-> IntOf(s, 7 + ml, 6 + ml + dl),
              end |-> 6 + ml + dl]
    ELSE [found |-> FALSE, Y |-> 0, m |-> 0, d |-> 0, end |-> 0]

IsLeap(y) == y % 4 = 0 /\ (y % 100 # 0 \/ y % 400 = 0)

DaysInMonth(y, m) ==
    IF m = 2 THEN (IF IsLeap(y) THEN 29 ELSE 28)
    ELSE IF m \in {4, 6, 9, 11} THEN 30 ELSE 31

\* datetime.strptime succeeds (TRUE) or raises ValueError (FALSE)
strptime(s) ==
    LET g == RegexMatch(s)
    IN  /\ g.found
        /\ g.end = Len(s)
        /\ g.Y >= 1
        /\ g.d <= DaysInMonth(g.Y, g.m)

\* is_valid_date(date_text)
is_valid_date(s) == strptime(s)

(***************************************************************************)
(* Console output: one record per printed line.                            *)
(***************************************************************************)
BannerLine == [tag |-> "banner"]
PromptLine == [tag |-> "prompt"]
InvalidFormatLine == [tag |-> "invalid_format"]
StartAfterEndLine == [tag |-> "start_after_end"]
SelectedLine(s, e) == [tag |-> "selected", start |-> s, end |-> e]
FetchingLine == [tag |-> "fetching"]
FetchedLine == [tag |-> "fetched"]
ReportHeader == [tag |-> "report_header"]
DailyLine(d, lo, hi) == [tag |-> "daily", date |-> d, min |-> lo, max |-> hi]
SummaryHeader == [tag |-> "summary_header"]
HighestLine(t, d) == [tag |-> "highest", temp |-> t, date |-> d]
LowestLine(t, d) == [tag |-> "lowest", temp |-> t, date |-> d]
AnomalyHeader == [tag |-> "anomaly_header"]
NoAnomalyLine == [tag |-> "no_anomalies"]
CompleteLine == [tag |-> "complete"]
ErrorLine(e) == [tag |-> "error", kind |-> e.kind, cause |-> e.cause]
UnexpectedErrorLine(e) == [tag |-> "unexpected_error", kind |-> e.kind, cause |-> e.cause]

abs(x) == IF x < 0 THEN 0 - x ELSE x

\* f"{diff:+.1f}": explicit sign, one decimal place
FormatSigned(diff) ==
    [sign |-> IF diff < 0 THEN "-" ELSE "+", tenths |-> 10 * abs(diff)]

AnomalyLine(d, diff, from, to) ==
    [tag |-> "anomaly", date |-> d, delta |-> FormatSigned(diff),
     from |-> from, to |-> to]

\* what a call leaves behind: the lines it printed and the exception it
\* raised ("none" when it returned)
Returned(lines) == [out |-> lines, exc |-> "none"]
Raised(lines, e) == [out |-> lines, exc |-> e]

(***************************************************************************)
(* print_weather_report(dates, max_temps, min_temps)                       *)
(***************************************************************************)
RECURSIVE ReportLoop(_, _, _, _, _)
ReportLoop(ds, hi, lo, i, lines) ==
    IF i > Len(ds) THEN Returned(lines)
    ELSE IF i > Len(lo) \/ i > Len(hi) THEN Raised(lines, "IndexError")
    ELSE ReportLoop(ds, hi, lo, i + 1, Append(lines, DailyLine(ds[i], lo[i], hi[i])))

print_weather_report(ds, hi, lo) == ReportLoop(ds, hi, lo, 1, <<ReportHeader>>)

(***************************************************************************)
(* find_extremes(dates, max_temps, min_temps)                              *)
(***************************************************************************)
\* max(xs) and min(xs) of a non-empty list
max(xs) == CHOOSE v \in {xs[i] : i \in 1..Len(xs)} : \A j \in 1..Len(xs) : xs[j] <= v
min(xs) == CHOOSE v \in {xs[i] : i \in 1..Len(xs)} : \A j \in 1..Len(xs) : xs[j] >= v

\* a plausible slip: the last position of v instead of the first
index_last(xs, v) ==
    CHOOSE i \in 1..Len(xs) : xs[i] = v /\ \A j \in (i + 1)..Len(xs) : xs[j] # v

\* xs.index(v): the first position of v (v occurs in xs)
index(xs, v) ==
    CHOOSE i \in 1..Len(xs) : xs[i] = v /\ \A j \in 1..(i - 1) : xs[j] # v

find_extremes(ds, hi, lo) ==
    IF hi = <<>> \/ lo = <<>> THEN Raised(<<>>, "ValueError")
    ELSE LET highest_temp == max(hi)
             lowest_temp == min(lo)
             hi_ix == index(hi, highest_temp)
             lo_ix == index(lo, lowest_temp)
         IN  IF hi_ix > Len(ds) \/ lo_ix > Len(ds) THEN Raised(<<>>, "IndexError")
             ELSE Returned(<<SummaryHeader,
                             HighestLine(highest_temp, ds[hi_ix]),
                             LowestLine(lowest_temp, ds[lo_ix])>>)

(***************************************************************************)
(* detect_anomalies(dates, max_temps, threshold=3.0)                       *)
(***************************************************************************)
\* the default of the threshold parameter, in degrees Celsius
DefaultThreshold == 3

\* a plausible slip: a change equal to the threshold counts too
IsAnomalyInclusive(diff, th) == abs(diff) >= th

\* the test of the loop body
IsAnomaly(diff, th) == abs(diff) > th

\* the loop from index i on; found is anomalies_found
RECURSIVE AnomalyLoop(_, _, _, _, _, _)
AnomalyLoop(ds, hi, th, i, lines, found) ==
    IF i > Len(hi) THEN [out |-> lines, exc |-> "none", found |-> found]
    ELSE LET diff == hi[i] - hi[i - 1]
         IN  IF IsAnomaly(diff, th)
             THEN IF i > Len(ds)
                  THEN [out |-> lines, exc |-> "IndexError", found |-> found]
                  ELSE AnomalyLoop(ds, hi, th, i + 1,
                           Append(lines, AnomalyLine(ds[i], diff, hi[i - 1], hi[i])),
                           TRUE)
             ELSE AnomalyLoop(ds, hi, th, i + 1, lines, found)

\* a plausible slip: the confirmation printed whatever the loop found
detect_anomalies_unconditional(ds, hi, th) ==
    LET r == AnomalyLoop(ds, hi, th, 2, <<AnomalyHeader>>, FALSE)
    IN  IF r.exc # "none" THEN Raised(r.out, r.exc)
        ELSE Returned(Append(r.out, NoAnomalyLine))

detect_anomalies(ds, hi, th) ==
    LET r == AnomalyLoop(ds, hi, th, 2, <<AnomalyHeader>>, FALSE)
    IN  IF r.exc # "none" THEN Raised(r.out, r.exc)
        ELSE IF ~r.found THEN Returned(Append(r.out, NoAnomalyLine))
        ELSE Returned(r.out)

(***************************************************************************)
(* What the user may type.                                                 *)
(***************************************************************************)
D_2023_01_05 == <<"2", "0", "2", "3", "-", "0", "1", "-", "0", "5">>
D_2023_01_10 == <<"2", "0", "2", "3", "-", "0", "1", "-", "1", "0">>
D_2023_02_30 == <<"2", "0", "2", "3", "-", "0", "2", "-", "3", "0">>
D_2023_03_01 == <<"2", "0", "2", "3", "-", "0", "3", "-", "0", "1">>
D_2023_3_1 == <<"2", "0", "2", "3", "-", "3", "-", "1">>
D_2023_10_01 == <<"2", "0", "2", "3", "-", "1", "0", "-", "0", "1">>
Junk == <<"x">>

\* strings typed at the prompts of a full run of main
MainInputs == {D_2023_01_05, D_2023_01_10, D_2023_02_30}

\* strings typed at the prompts when the prompt loop is explored alone
Inputs == MainInputs \cup {D_2023_03_01, D_2023_3_1, D_2023_10_01, Junk}

\* strings handed to is_valid_date when it is explored alone
Years == {<<"2", "0", "2", "3">>, <<"2", "0", "2", "4">>, <<"1", "9", "0", "0">>,
          <<"2", "0", "0", "0">>, <<"2", "2", "3">>}
Months == {<<"0", "1">>, <<"1">>, <<"0", "2">>, <<"2">>, <<"0", "3">>, <<"3">>,
           <<"0", "4">>, <<"1", "0">>, <<"1", "2">>, <<"1", "3">>, <<"0", "0">>,
           <<" ", "1">>}
Days == {<<"0", "1">>, <<"1">>, <<"0", "5">>, <<"1", "0">>, <<"2", "8">>,
         <<"2", "9">>, <<"3", "0">>, <<"3", "1">>, <<"3", "2">>, <<"0", "0">>,
         <<" ", "1">>}
Seps == {<<"-">>, <<"/">>}
Tails == {<<>>, <<" ">>, <<"x">>}
DateStrings ==
    {y \o s \o m \o s \o d \o t :
        y \in Years, m \in Months, d \in Days, s \in Seps, t \in Tails}
    \cup {<<>>, Junk}

(***************************************************************************)
(* get_user_date_input: one iteration of the loop on the pair typed.       *)
(***************************************************************************)
\* a plausible slip: the order of the two dates is never looked at
VerdictUnordered(s, e) ==
    IF ~is_valid_date(s) \/ ~is_valid_date(e) THEN "invalid" ELSE "ok"

\* the two tests of the loop body
Verdict(s, e) ==
    IF ~is_valid_date(s) \/ ~is_valid_date(e) THEN "invalid"
    ELSE IF StrGreater(s, e) THEN "inverted"
    ELSE "ok"

(***************************************************************************)
(* The weather API as get_weather_data meets it.                           *)
(***************************************************************************)
Temps == {20, 22, 25}
LowTemps == {10, 12, 15}
Thresholds == {2, DefaultThreshold, 5}

SeqsUpTo(S, n) == UNION {[1..k -> S] : k \in 0..n}
DateSeqs(n) == {[i \in 1..k |-> i] : k \in 0..n}

DailyKeys == {"time", "temperature_2m_max", "temperature_2m_min"}

NoBody ==
    [json |-> "none", daily |-> "none", keys |-> {},
     time |-> <<>>, tmax |-> <<>>, tmin |-> <<>>]

\* bodies of a 200 response: not JSON; JSON but no object; an object without
\* `daily`; `daily` no object; `daily` an object with some of its keys
Bodies ==
    {[NoBody EXCEPT !.json = j] : j \in {"invalid", "array"}}
    \cup {[NoBody EXCEPT !.json = "object", !.daily = d] : d \in {"absent", "array"}}
    \cup {[NoBody EXCEPT !.json = "object", !.daily = "object", !.keys = k] :
              k \in (SUBSET DailyKeys) \ {DailyKeys}}
    \cup {[json |-> "object", daily |-> "object", keys |-> DailyKeys,
           time |-> t, tmax |-> hi, tmin |-> lo] :
              t \in DateSeqs(MaxDays), hi \in SeqsUpTo(Temps, MaxDays),
              lo \in SeqsUpTo(LowTemps, MaxDays)}

\* the class response.json() raises on a body that is not JSON: a
\* RequestException since requests 2.27, a plain ValueError before
JsonErrors == {"requests.JSONDecodeError", "json.JSONDecodeError"}

Responses ==
    {[transport |-> x, status |-> 0, json_error |-> "none", body |-> NoBody] :
        x \in {"ConnectionError", "Timeout"}}
    \cup {[transport |-> "ok", status |-> c, json_error |-> "none", body |-> NoBody] :
        c \in {400, 404, 500}}
    \cup {[transport |-> "ok", status |-> 200,
           json_error |-> IF b.json = "invalid" THEN j ELSE "none", body |-> b] :
        b \in Bodies, j \in JsonErrors}

NoResponse == [transport |-> "none", status |-> 0, json_error |-> "none", body |-> NoBody]

\* subclasses of requests.exceptions.RequestException
IsRequestException(c) ==
    c \in {"ConnectionError", "Timeout", "HTTPError", "requests.JSONDecodeError"}

\* the try block: the exception it raises ("none" when it returns) and
\* whether the success line was printed before
TryBlock(r) ==
    IF r.transport # "ok" THEN [exc |-> r.transport, printed |-> FALSE]
    ELSE IF r.status >= 400 /\ r.status < 600 THEN [exc |-> "HTTPError", printed |-> FALSE]
    ELSE IF r.body.json = "invalid" THEN [exc |-> r.json_error, printed |-> FALSE]
    ELSE IF r.body.json # "object" THEN [exc |-> "TypeError", printed |-> TRUE]
    ELSE IF r.body.daily = "absent" THEN [exc |-> "KeyError", printed |-> TRUE]
    ELSE IF r.body.daily # "object" THEN [exc |-> "TypeError", printed |-> TRUE]
    ELSE IF r.body.keys # DailyKeys THEN [exc |-> "KeyError", printed |-> TRUE]
    ELSE [exc |-> "none", printed |-> TRUE]

NoExc == [type |-> "none", kind |-> "none", cause |-> "none"]

\* the except clauses, in order: the RuntimeError each raises
ExceptClauses(c) ==
    IF IsRequestException(c) THEN [type |-> "RuntimeError", kind |-> "network", cause |-> c]
    ELSE IF c = "KeyError" THEN [type |-> "RuntimeError", kind |-> "format", cause |-> c]
    ELSE [type |-> "RuntimeError", kind |-> "unexpected", cause |-> c]

\* a plausible slip: a failure swallowed, empty lists returned instead
get_weather_data_swallowing(r) ==
    LET t == TryBlock(r)
        lines == <<FetchingLine>> \o (IF t.printed THEN <<FetchedLine>> ELSE <<>>)
    IN  IF t.exc = "none"
        THEN [out |-> lines, exc |-> NoExc,
              dates |-> r.body.time, max_temps |-> r.body.tmax, min_temps |-> r.body.tmin]
        ELSE [out |-> lines, exc |-> NoExc,
              dates |-> <<>>, max_temps |-> <<>>, min_temps |-> <<>>]

\* get_weather_data on response r: lines printed, exception raised, series
get_weather_data(r) ==
    LET t == TryBlock(r)
        lines == <<FetchingLine>> \o (IF t.printed THEN <<FetchedLine>> ELSE <<>>)
    IN  IF t.exc = "none"
        THEN [out |-> lines, exc |-> NoExc,
              dates |-> r.body.time, max_temps |-> r.body.tmax, min_temps |-> r.body.tmin]
        ELSE [out |-> lines, exc |-> ExceptClauses(t.exc),
              dates |-> <<>>, max_temps |-> <<>>, min_temps |-> <<>>]

(***************************************************************************)
(* State.  pc is the place main (or the function explored alone) has       *)
(* reached; entered is the list of the pairs typed so far; invoked is the  *)
(* set of the functions called so far; exc is the exception in flight.     *)
(***************************************************************************)
Analyzers == {"print_weather_report", "find_extremes", "detect_anomalies"}

Blank ==
    /\ date_text = <<>> /\ valid = FALSE
    /\ entered = <<>> /\ start_date = <<>> /\ end_date = <<>>
    /\ response = NoResponse
    /\ dates = <<>> /\ max_temps = <<>> /\ min_temps = <<>>
    /\ threshold = DefaultThreshold
    /\ exc = NoExc /\ ret = Returned(<<>>)
    /\ out = <<>> /\ invoked = {}

\* main is about to run
Init == pc = "main" /\ Blank

\* main, its first line: the banner, then the call of get_user_date_input
MainStart ==
    /\ pc = "main"
    /\ pc' = "prompt"
    /\ out' = Append(out, BannerLine)
    /\ invoked' = invoked \cup {"get_user_date_input"}
    /\ UNCHANGED <<date_text, valid, entered, start_date, end_date, response,
                   dates, max_temps, min_temps, threshold, exc, ret>>

\* get_user_date_input, one iteration of `while True` on strings from typed
GetUserDateInput(typed) ==
    /\ pc = "prompt"
    /\ Len(entered) < MaxAttempts
    /\ \E s \in typed, e \in typed :
        /\ entered' = Append(entered, <<s, e>>)
        /\ CASE Verdict(s, e) = "invalid" ->
                  /\ out' = out \o <<PromptLine, InvalidFormatLine>>
                  /\ pc' = "prompt"
                  /\ UNCHANGED <<start_date, end_date>>
             [] Verdict(s, e) = "inverted" ->
                  /\ out' = out \o <<PromptLine, StartAfterEndLine>>
                  /\ pc' = "prompt"
                  /\ UNCHANGED <<start_date, end_date>>
             [] Verdict(s, e) = "ok" ->
                  /\ out' = out \o <<PromptLine, SelectedLine(s, e)>>
                  /\ pc' = "fetch"
                  /\ start_date' = s
                  /\ end_date' = e
    /\ UNCHANGED <<date_text, valid, response, dates, max_temps, min_temps,
                   threshold, exc, ret, invoked>>

\* an exception leaves the try block of main for its except clauses
Throw(e) == pc' = "except" /\ exc' = e

\* main, step 2: get_weather_data on whatever the API answers
GetWeatherData ==
    /\ pc = "fetch"
    /\ \E r \in Responses :
        LET g == get_weather_data(r)
        IN  /\ response' = r
            /\ out' = out \o g.out
            /\ dates' = g.dates
            /\ max_temps' = g.max_temps
            /\ min_temps' = g.min_temps
            /\ IF g.exc = NoExc THEN pc' = "report" /\ exc' = exc
               ELSE Throw(g.exc)
    /\ invoked' = invoked \cup {"get_weather_data"}
    /\ UNCHANGED <<date_text, valid, entered, start_date, end_date, threshold, ret>>

\* a step of the try block: the call r of function f, then on to `next`
Step(f, r, next) ==
    /\ out' = out \o r.out
    /\ invoked' = invoked \cup {f}
    /\ IF r.exc = "none" THEN pc' = next /\ exc' = exc
       ELSE Throw([type |-> r.exc, kind |-> "none", cause |-> f])
    /\ UNCHANGED <<date_text, valid, entered, start_date, end_date, response,
                   dates, max_temps, min_temps, threshold, ret>>

\* main, step 3
PrintWeatherReport ==
    /\ pc = "report"
    /\ Step("print_weather_report",
            print_weather_report(dates, max_temps, min_temps), "extremes")

\* main, step 4
FindExtremes ==
    /\ pc = "extremes"
    /\ Step("find_extremes", find_extremes(dates, max_temps, min_temps), "anomalies")

\* main, step 5: the threshold is left to its default
DetectAnomalies ==
    /\ pc = "anomalies"
    /\ Step("detect_anomalies",
            detect_anomalies(dates, max_temps, DefaultThreshold), "complete")

\* main, the last line of the try block
Complete ==
    /\ pc = "complete"
    /\ pc' = "returned"
    /\ out' = Append(out, CompleteLine)
    /\ UNCHANGED <<date_text, valid, entered, start_date, end_date, response,
                   dates, max_temps, min_temps, threshold, exc, ret, invoked>>

\* classes derived from Exception (every class raised here is)
IsException(c) ==
    c \in {"RuntimeError", "IndexError", "ValueError", "TypeError", "KeyError"}

\* a plausible slip: only RuntimeError is caught
main_except_runtime_only(e) ==
    IF e.type = "RuntimeError" THEN [caught |-> TRUE, line |-> ErrorLine(e)]
    ELSE [caught |-> FALSE, line |-> ErrorLine(e)]

\* the except clauses of main, in order
main_except(e) ==
    IF e.type = "RuntimeError" THEN [caught |-> TRUE, line |-> ErrorLine(e)]
    ELSE IF IsException(e.type) THEN [caught |-> TRUE, line |-> UnexpectedErrorLine(e)]
    ELSE [caught |-> FALSE, line |-> ErrorLine(e)]

\* main, its except clauses: the message, then main returns; an exception
\* no clause takes leaves main
HandleException ==
    /\ pc = "except"
    /\ LET h == main_except(exc)
       IN  IF h.caught THEN pc' = "returned" /\ out' = Append(out, h.line)
           ELSE pc' = "crashed" /\ out' = out
    /\ UNCHANGED <<date_text, valid, entered, start_date, end_date, response,
                   dates, max_temps, min_temps, threshold, exc, ret, invoked>>

Next ==
    \/ MainStart
    \/ GetUserDateInput(MainInputs)
    \/ GetWeatherData
    \/ PrintWeatherReport
    \/ FindExtremes
    \/ DetectAnomalies
    \/ Complete
    \/ HandleException

\* a run of main
Spec == Init /\ [][Next]_vars

(***************************************************************************)
(* The prompt loop explored alone: main up to the call of                  *)
(* get_weather_data, on the wider set of typed strings.                    *)
(***************************************************************************)
NextCollect == MainStart \/ GetUserDateInput(Inputs)

SpecCollect == Init /\ [][NextCollect]_vars

(***************************************************************************)
(* is_valid_date explored alone.                                           *)
(***************************************************************************)
InitDate ==
    /\ pc = "call"
    /\ date_text \in DateStrings
    /\ valid = FALSE
    /\ entered = <<>> /\ start_date = <<>> /\ end_date = <<>>
    /\ response = NoResponse
    /\ dates = <<>> /\ max_temps = <<>> /\ min_temps = <<>>
    /\ threshold = DefaultThreshold
    /\ exc = NoExc /\ ret = Returned(<<>>)
    /\ out = <<>> /\ invoked = {}

IsValidDate ==
    /\ pc = "call"
    /\ pc' = "is_valid_date"
    /\ valid' = is_valid_date(date_text)
    /\ invoked' = invoked \cup {"is_valid_date"}
    /\ UNCHANGED <<date_text, entered, start_date, end_date, response, dates,
                   max_temps, min_temps, threshold, exc, ret, out>>

SpecDate == InitDate /\ [][IsValidDate]_vars

(***************************************************************************)
(* The report functions explored alone, on any three lists and threshold.  *)
(***************************************************************************)
InitAnalyze ==
    /\ pc = "call"
    /\ dates \in DateSeqs(MaxLen)
    /\ max_temps \in SeqsUpTo(Temps, MaxLen)
    /\ min_temps \in SeqsUpTo(LowTemps, MaxLen)
    /\ threshold \in Thresholds
    /\ date_text = <<>> /\ valid = FALSE
    /\ entered = <<>> /\ start_date = <<>> /\ end_date = <<>>
    /\ response = NoResponse
    /\ exc = NoExc /\ ret = Returned(<<>>)
    /\ out = <<>> /\ invoked = {}

\* the call r of function f and what it leaves behind
Apply(f, r) ==
    /\ pc = "call"
    /\ pc' = f
    /\ ret' = r
    /\ invoked' = invoked \cup {f}
    /\ UNCHANGED <<date_text, valid, entered, start_date, end_date, response,
                   dates, max_temps, min_temps, threshold, exc, out>>

ApplyPrintWeatherReport ==
    Apply("print_weather_report", print_weather_report(dates, max_temps, min_temps))

ApplyFindExtremes ==
    Apply("find_extremes", find_extremes(dates, max_temps, min_temps))

ApplyDetectAnomalies ==
    Apply("detect_anomalies", detect_anomalies(dates, max_temps, threshold))

NextAnalyze == ApplyPrintWeatherReport \/ ApplyFindExtremes \/ ApplyDetectAnomalies

SpecAnalyze == InitAnalyze /\ [][NextAnalyze]_vars

(***************************************************************************)
(* Properties.                                                             *)
(***************************************************************************)
Tags(lines) == {lines[i].tag : i \in 1..Len(lines)}
Count(lines, tags) == Cardinality({i \in 1..Len(lines) : lines[i].tag \in tags})

ReportTags ==
    {"report_header", "daily", "summary_header", "highest", "lowest",
     "anomaly_header", "anomaly", "no_anomalies"}
ErrorTags == {"error", "unexpected_error"}

FetchDone == "get_weather_data" \in invoked
FetchFailed == FetchDone /\ TryBlock(response).exc # "none"
FetchSucceeded == FetchDone /\ TryBlock(response).exc = "none"

\* C1: when the fetch step of main fails, with one of its three error
\* kinds, the error message is printed and main ends; none of
\* print_weather_report, find_extremes and detect_anomalies is ever invoked,
\* the completion message is not printed, and no line of the daily report,
\* the extremes summary or the anomaly report is in the output.
C1_FetchFailureSkipsReports ==
    FetchFailed =>
        /\ pc \in {"except", "returned"}
        /\ exc.type = "RuntimeError"
        /\ exc.kind \in {"network", "format", "unexpected"}
        /\ invoked \cap Analyzers = {}
        /\ Tags(out) \cap (ReportTags \cup {"complete"}) = {}
        /\ pc = "returned" => out[Len(out)] = ErrorLine(exc) /\ Count(out, ErrorTags) = 1

C1_Witness ==
    /\ pc = "returned"
    /\ FetchFailed
    /\ response.body.json = "object" /\ response.body.daily = "absent"
    /\ out[Len(out)].tag = "error"

\* the error kind the taxonomy gives the failure of a fetch that met r
ClaimedKind(r) ==
    IF r.transport # "ok" \/ r.status >= 400 THEN "network"
    ELSE IF /\ r.body.json = "object"
            /\ \/ r.body.daily = "absent"
               \/ (r.body.daily = "object" /\ r.body.keys # DailyKeys)
         THEN "format"
    ELSE "unexpected"

\* C4: every failure of get_weather_data is one of three error kinds: a
\* connection failure or an HTTP error status is the network error, a body
\* that parsed but lacks `daily` (or a key under it) is the data-format
\* error, and any other failure of the call or the parse is the unexpected
\* error.
C4_ErrorKinds ==
    FetchFailed =>
        /\ exc.type = "RuntimeError"
        /\ exc.kind = ClaimedKind(response)

\* C9: a failure raised during or after the fetch step of main is caught by
\* the top-level handler: exactly one error message is printed, no later
\* step runs, the completion message is not printed, and main returns
\* instead of letting the exception out.
Pipeline == <<"get_weather_data", "print_weather_report", "find_extremes", "detect_anomalies">>
StepNo(f) == CHOOSE k \in 1..Len(Pipeline) : Pipeline[k] = f
FailedStep == IF exc.type = "RuntimeError" THEN "get_weather_data" ELSE exc.cause

C9_TopLevelHandler ==
    /\ pc # "crashed"
    /\ exc # NoExc => pc \in {"except", "returned"}
    /\ (pc = "returned" /\ exc # NoExc) =>
        /\ Count(out, ErrorTags) = 1
        /\ out[Len(out)].tag \in ErrorTags
        /\ "complete" \notin Tags(out)
        /\ \A k \in 1..Len(Pipeline) :
               Pipeline[k] \in invoked <=> k <= StepNo(FailedStep)

C9_Witness ==
    /\ pc = "returned"
    /\ FetchSucceeded
    /\ dates = <<>> /\ max_temps = <<>> /\ min_temps = <<>>
    /\ exc.type = "ValueError" /\ exc.cause = "find_extremes"
    /\ out[Len(out)].tag = "unexpected_error"
    /\ "detect_anomalies" \notin invoked

\* C10: every series get_weather_data returns, and so every series handed
\* to the report functions, has len(dates) = len(max_temps) =
\* len(min_temps), whatever JSON body the API answers with.
C10_EqualLengths ==
    FetchSucceeded =>
        Len(dates) = Len(max_temps) /\ Len(max_temps) = Len(min_temps)

\* start <= end on str, as Python orders strings
StrLeq(a, b) == a = b \/ StrGreater(b, a)
Acceptable(p) == is_valid_date(p[1]) /\ is_valid_date(p[2]) /\ StrLeq(p[1], p[2])

\* the calendar day a string accepted by strptime denotes
CalendarDay(s) ==
    LET g == RegexMatch(s) IN g.Y * 10000 + g.m * 100 + g.d

\* C2: get_user_date_input never returns a pair whose start is a later
\* calendar date than its end: both strings pass is_valid_date and
\* start <= end as calendar dates.
C2_OrderedRange ==
    pc = "fetch" =>
        /\ is_valid_date(start_date)
        /\ is_valid_date(end_date)
        /\ CalendarDay(start_date) <= CalendarDay(end_date)

\* C8: get_user_date_input returns the first pair typed whose two strings
\* pass is_valid_date with start <= end, and nothing before it: every
\* earlier pair is rejected with a message and a new prompt, no validation
\* failure leaves the loop as an error, and main does not reach the fetch
\* step before such a pair was typed.
C8_FirstAcceptablePair ==
    /\ pc \in {"main", "prompt", "fetch"}
    /\ exc = NoExc
    /\ \A j \in 1..Len(entered) :
           (j < Len(entered) \/ pc = "prompt") => ~Acceptable(entered[j])
    /\ Count(out, {"prompt"}) = Len(entered)
    /\ pc = "prompt" =>
           Count(out, {"invalid_format", "start_after_end"}) = Len(entered)
    /\ pc = "fetch" =>
        /\ entered # <<>>
        /\ <<start_date, end_date>> = entered[Len(entered)]
        /\ Acceptable(entered[Len(entered)])
        /\ Count(out, {"invalid_format", "start_after_end"}) = Len(entered) - 1
        /\ out[Len(out)] = SelectedLine(start_date, end_date)

C8_Witness ==
    /\ pc = "fetch"
    /\ entered = <<<<D_2023_01_10, D_2023_01_05>>, <<D_2023_01_05, D_2023_01_10>>>>
    /\ start_date = D_2023_01_05
    /\ end_date = D_2023_01_10

\* the form YYYY-MM-DD, zero-padded, of a day the calendar has
ZeroPaddedRealDate(s) ==
    /\ Len(s) = 10
    /\ s[5] = "-" /\ s[8] = "-"
    /\ \A p \in {1, 2, 3, 4, 6, 7, 9, 10} : s[p] \in Digits
    /\ LET y == IntOf(s, 1, 4)
           m == IntOf(s, 6, 7)
           d == IntOf(s, 9, 10)
       IN  y >= 1 /\ m >= 1 /\ m <= 12 /\ d >= 1 /\ d <= DaysInMonth(y, m)

\* C3: is_valid_date(s) is true if and only if s has exactly the
\* zero-padded form YYYY-MM-DD and denotes a real calendar date.
C3_ValidIffZeroPaddedDate ==
    pc = "is_valid_date" => (valid <=> ZeroPaddedRealDate(date_text))

\* the indices (from the second element on) whose change exceeds th
Qualifying(hi, th) ==
    SelectSeq([k \in 1..(IF Len(hi) = 0 THEN 0 ELSE Len(hi) - 1) |-> k + 1],
              LAMBDA i : hi[i] - hi[i - 1] > th \/ hi[i - 1] - hi[i] > th)

AnomalyLines(lines) == SelectSeq(lines, LAMBDA l : l.tag = "anomaly")

\* C5: on a series whose days all have a date, detect_anomalies prints an
\* anomaly line for index i if and only if abs(max_temps[i] -
\* max_temps[i-1]) is strictly greater than the threshold, one line per
\* such index in ascending order, each with dates[i] and the signed change;
\* a change equal to the threshold is not reported.
C5_AnomalyLines ==
    (pc = "detect_anomalies" /\ Len(dates) >= Len(max_temps)) =>
        LET q == Qualifying(max_temps, threshold)
            a == AnomalyLines(ret.out)
        IN  /\ ret.exc = "none"
            /\ Len(a) = Len(q)
            /\ \A k \in 1..Len(q) :
                LET i == q[k]
                    diff == max_temps[i] - max_temps[i - 1]
                IN  /\ a[k].date = dates[i]
                    /\ a[k].delta.sign = (IF diff < 0 THEN "-" ELSE "+")
                    /\ a[k].delta.tenths = (IF diff < 0 THEN 0 - 10 * diff ELSE 10 * diff)
                    /\ a[k].from = max_temps[i - 1]
                    /\ a[k].to = max_temps[i]

C5_Witness ==
    /\ pc = "detect_anomalies"
    /\ dates = <<1, 2, 3>>
    /\ max_temps = <<20, 25, 22>>
    /\ threshold = DefaultThreshold
    /\ AnomalyLines(ret.out) = <<AnomalyLine(2, 5, 20, 25)>>

\* C6: detect_anomalies prints the one "no anomalies" line exactly when no
\* index qualified, never together with an anomaly line; on a series of
\* length 0 or 1 it prints that line and no anomaly line, without failing.
C6_NoAnomalyLine ==
    pc = "detect_anomalies" =>
        LET q == Qualifying(max_temps, threshold)
            none == Count(ret.out, {"no_anomalies"})
            some == Count(ret.out, {"anomaly"})
        IN  /\ none <= 1
            /\ none = 1 <=> q = <<>>
            /\ ~(none > 0 /\ some > 0)
            /\ none = 1 => ret.out[Len(ret.out)] = NoAnomalyLine
            /\ Len(max_temps) <= 1 => ret = Returned(<<AnomalyHeader, NoAnomalyLine>>)

C6_Witness ==
    /\ pc = "detect_anomalies"
    /\ max_temps = <<>>
    /\ ret = Returned(<<AnomalyHeader, NoAnomalyLine>>)

\* i is the first place at which xs has the value v
FirstAt(xs, v, i) == i \in 1..Len(xs) /\ xs[i] = v /\ \A j \in 1..(i - 1) : xs[j] # v

\* C7: on a non-empty series, find_extremes reports the maximum of
\* max_temps with the date of the first index that has it, and the minimum
\* of min_temps with the date of the first index that has it.
C7_Extremes ==
    (/\ pc = "find_extremes"
     /\ max_temps # <<>> /\ min_temps # <<>>
     /\ Len(dates) >= Len(max_temps) /\ Len(dates) >= Len(min_temps)) =>
        /\ ret.exc = "none"
        /\ Len(ret.out) = 3
        /\ ret.out[2].tag = "highest"
        /\ \A j \in 1..Len(max_temps) : max_temps[j] <= ret.out[2].temp
        /\ \E i \in 1..Len(max_temps) :
               FirstAt(max_temps, ret.out[2].temp, i) /\ ret.out[2].date = dates[i]
        /\ ret.out[3].tag = "lowest"
        /\ \A j \in 1..Len(min_temps) : min_temps[j] >= ret.out[3].temp
        /\ \E i \in 1..Len(min_temps) :
               FirstAt(min_temps, ret.out[3].temp, i) /\ ret.out[3].date = dates[i]

C7_Witness ==
    /\ pc = "find_extremes"
    /\ dates = <<1, 2, 3>>
    /\ max_temps = <<20, 25, 25>>
    /\ min_temps = <<10, 15, 10>>
    /\ ret = Returned(<<SummaryHeader, HighestLine(25, 2), LowestLine(10, 1)>>)

====
